---- MODULE Spec2Model ----
(***************************************************************************)
(* The data/authorization core of the blog application (src/main.py,       *)
(* src/forms.py): the three tables, the session cookie of each client and  *)
(* the request handlers that mutate them.  One action is one HTTP request, *)
(* handled from its decorators down to its commit.                         *)
(*                                                                         *)
(* The store is persistent (DB_URI, default sqlite:///blog.db) and         *)
(* db.create_all() keeps the rows it finds, so the application starts on   *)
(* the users table it is given: Init is a store holding the users of       *)
(* Roster, with no post, no comment and every client anonymous.            *)
(***************************************************************************)
EXTENDS Integers, Sequences, FiniteSets, TLC

\* ---------------------------------------------------------------- bounds
NumSessions == 2
MaxPostId == 2
MaxCommentId == 1
MaxUserId == 4

\* ------------------------------------------------------ program constants
AdminId == 1
MinPasswordLen == 8

Sessions == 1..NumSessions

\* ------------------------------------------------------- credential store
\* generate_password_hash: a one-way function of the password (salt left out)
generate_password_hash(pw) == <<"pbkdf2:sha256", pw>>

\* a verification that accepts every password
check_password_hash_any(stored, pw) == TRUE

check_password_hash(stored, pw) == stored = generate_password_hash(pw)

\* ------------------------------------------------------------------ forms
\* a signup form that declares the username field signup() reads
SignupForm_with_username == {"name", "username", "email", "password", "submit"}

\* the fields each form class declares
SignupForm == {"name", "email", "password", "submit"}

\* what the clients post
URLs == {"http://x.io/i.png"}
WellFormedEmails == {"a@x.io", "b@x.io", "d@x.io"}

SignupData ==
  { [name |-> "Dee", username |-> "Dee", email |-> "d@x.io", password |-> "password-d"],
    [name |-> "Dee", username |-> "Dee", email |-> "a@x.io", password |-> "password-d"],
    [name |-> "Al", username |-> "Al", email |-> "d@x.io", password |-> "password-d"],
    [name |-> "Dee", username |-> "Dee", email |-> "d@x.io", password |-> "short"],
    [name |-> "Dee", username |-> "Dee", email |-> "d.x.io", password |-> "password-d"] }

SigninData ==
  { [email |-> "a@x.io", password |-> "password-a"],
    [email |-> "b@x.io", password |-> "password-b"],
    [email |-> "b@x.io", password |-> "password-a"],
    [email |-> "d@x.io", password |-> "password-d"],
    [email |-> "a@x.io", password |-> "short"],
    [email |-> "d.x.io", password |-> "password-d"] }

PostData ==
  { [title |-> "Hello", subtitle |-> "sub1", img_url |-> "http://x.io/i.png", body |-> "<p>text</p>"],
    [title |-> "World", subtitle |-> "sub2", img_url |-> "http://x.io/i.png", body |-> "<p>text</p>"],
    [title |-> "Hello", subtitle |-> "sub1", img_url |-> "x.io", body |-> "<p>text</p>"] }

CommentData == [comment : {"<b>hi</b>", ""}]

Dates == {"November 05, 2026"}

\* a request is a GET, or a POST carrying form data
GET == [method |-> "GET"]

POST(data) == [method |-> "POST", form |-> data]

Requests(Data) == {GET} \cup {POST(d) : d \in Data}

\* validators
DataRequired(v) == v # ""

Length(v) == Len(v) >= MinPasswordLen

URL(v) == v \in URLs

Email(v) == v \in WellFormedEmails

SignupForm_validate(d) ==
  /\ DataRequired(d.name)
  /\ DataRequired(d.email) /\ Email(d.email)
  /\ DataRequired(d.password) /\ Length(d.password)

SigninForm_validate(d) ==
  /\ DataRequired(d.email) /\ Email(d.email)
  /\ DataRequired(d.password) /\ Length(d.password)

CreatePostForm_validate(d) ==
  /\ DataRequired(d.title)
  /\ DataRequired(d.subtitle)
  /\ DataRequired(d.img_url) /\ URL(d.img_url)
  /\ DataRequired(d.body)

CommentForm_validate(d) == DataRequired(d.comment)

\* form.validate_on_submit() is is_submitted() and validate(): a POST whose
\* data pass the validators
is_submitted(req) == req.method = "POST"

\* str.lower() on the usernames the clients post
lower(u) ==
  CASE u = "Dee" -> "dee"
    [] u = "Al" -> "al"
    [] OTHER -> u

\* markupsafe.escape on the comments the clients post
escape(t) ==
  CASE t = "<b>hi</b>" -> "&lt;b&gt;hi&lt;/b&gt;"
    [] OTHER -> t

\* ------------------------------------------------------------------ store
Roster ==
  { [id |-> 1, email |-> "a@x.io", password |-> generate_password_hash("password-a"), username |-> "al"],
    [id |-> 2, email |-> "b@x.io", password |-> generate_password_hash("password-b"), username |-> "bo"] }

Usernames == {"al", "bo", "dee"}

VARIABLES
  users,     \* table users: rows [id, email, password, username]
  posts,     \* table blog_posts: rows [id, author_id, title, subtitle, date, body, img_url]
  comments,  \* table comments: rows [id, text, comment_author_id, post_id]
  sess,      \* sess[s]: the user ids client s's session cookie holds ({} or {id})
  last       \* the request handled last: [op, uid, outcome, removed]

vars == <<users, posts, comments, sess, last>>

Ids(rows) == {r.id : r \in rows}

\* an Integer primary key of the default sqlite store: one more than the largest id in the table
NextId(rows) ==
  IF rows = {} THEN 1
  ELSE (CHOOSE m \in Ids(rows) : \A i \in Ids(rows) : i <= m) + 1

\* a delete that leaves the comments of the deleted posts in place
DeletePosts_no_cascade(gone, cs) == cs

\* db.session.delete(post) with the relationship BlogPost.comments (cascade delete)
DeletePosts(gone, cs) == {c \in cs : c.post_id \notin Ids(gone)}

\* ---------------------------------------------------------------- session
\* load_user: get_or_404 on the id the cookie holds; raises NotFound for a deleted user
load_user_fails(s) == ~(sess[s] \subseteq Ids(users))

is_authenticated(s) == sess[s] # {}

current_user(s) == CHOOSE u \in users : u.id \in sess[s]

\* a guard that lets every signed-in user through
admin_only_any_user(s) ==
  IF sess[s] = {} THEN "InternalError" ELSE "pass"

\* admin_only: int(current_user.get_id()) != 1 aborts with 403;
\* get_id() of the anonymous user is None, and int(None) raises TypeError
admin_only(s) ==
  IF ~is_authenticated(s) THEN "InternalError"
  ELSE IF sess[s] # {AdminId} THEN "Forbidden"
  ELSE "pass"

\* login_required: an anonymous caller is refused (401, no login view is set)
login_required(s) ==
  IF ~is_authenticated(s) THEN "NotAuthenticated" ELSE "pass"

\* the response to a request, logged with the caller's cookie on arrival and
\* the number of post and comment rows the request deleted
Reply(op, s, outcome) ==
  last' = [op |-> op, uid |-> sess[s], outcome |-> outcome,
           removed |-> <<Cardinality(Ids(posts) \ Ids(posts')),
                         Cardinality(Ids(comments) \ Ids(comments'))>>]

\* a response that leaves the store and the cookies as they were
Deny(op, s, outcome) ==
  UNCHANGED <<users, posts, comments, sess>> /\ Reply(op, s, outcome)

Init ==
  /\ users = Roster
  /\ posts = {}
  /\ comments = {}
  /\ sess = [s \in Sessions |-> {}]
  /\ last = [op |-> "start", uid |-> {}, outcome |-> "OK", removed |-> <<0, 0>>]

\* --------------------------------------------------------------- handlers
\* /signup
signup(s, req) ==
  IF load_user_fails(s) THEN
    Deny("signUp", s, "NotFound")
  ELSE IF is_authenticated(s) THEN
    Deny("signUp", s, "AlreadyAuthenticated")
  ELSE IF ~(is_submitted(req) /\ SignupForm_validate(req.form)) THEN
    Deny("signUp", s, "Rendered")
  ELSE IF \E u \in users : u.email = req.form.email THEN
    Deny("signUp", s, "DuplicateEmail")
  ELSE IF "username" \notin SignupForm THEN
    \* form.username: SignupForm declares no such field (AttributeError)
    Deny("signUp", s, "InternalError")
  ELSE
    LET new_user == [id |-> NextId(users), email |-> req.form.email,
                     password |-> generate_password_hash(req.form.password),
                     username |-> lower(req.form.username)]
    IN  /\ new_user.id <= MaxUserId
        /\ IF \E u \in users : u.username = new_user.username THEN
             \* unique constraint on users.username (IntegrityError at commit)
             Deny("signUp", s, "InternalError")
           ELSE
             /\ users' = users \cup {new_user}
             /\ sess' = [sess EXCEPT ![s] = {new_user.id}]
             /\ UNCHANGED <<posts, comments>>
             /\ Reply("signUp", s, "OK")

\* /signin
signin(s, req) ==
  IF load_user_fails(s) THEN
    Deny("signIn", s, "NotFound")
  ELSE IF is_authenticated(s) THEN
    Deny("signIn", s, "AlreadyAuthenticated")
  ELSE IF ~(is_submitted(req) /\ SigninForm_validate(req.form)) THEN
    Deny("signIn", s, "Rendered")
  ELSE IF ~\E u \in users : u.email = req.form.email THEN
    Deny("signIn", s, "UnknownEmail")
  ELSE
    LET user == CHOOSE u \in users : u.email = req.form.email
    IN  IF check_password_hash(user.password, req.form.password) THEN
          /\ sess' = [sess EXCEPT ![s] = {user.id}]
          /\ UNCHANGED <<users, posts, comments>>
          /\ Reply("signIn", s, "OK")
        ELSE
          Deny("signIn", s, "InvalidPassword")

\* /signout
signout(s) ==
  IF load_user_fails(s) THEN
    Deny("signOut", s, "NotFound")
  ELSE
    /\ sess' = [sess EXCEPT ![s] = {}]
    /\ UNCHANGED <<users, posts, comments>>
    /\ Reply("signOut", s, "OK")

\* /new-post: @login_required, @admin_only
add_new_post(s, req, today) ==
  IF load_user_fails(s) THEN
    Deny("createPost", s, "NotFound")
  ELSE IF login_required(s) # "pass" THEN
    Deny("createPost", s, login_required(s))
  ELSE IF admin_only(s) # "pass" THEN
    Deny("createPost", s, admin_only(s))
  ELSE IF ~(is_submitted(req) /\ CreatePostForm_validate(req.form)) THEN
    Deny("createPost", s, "Rendered")
  ELSE IF \E p \in posts : p.title = req.form.title THEN
    \* unique constraint on blog_posts.title (IntegrityError at commit, not caught)
    Deny("createPost", s, "InternalError")
  ELSE
    LET new_post == [id |-> NextId(posts), author_id |-> current_user(s).id,
                     title |-> req.form.title, subtitle |-> req.form.subtitle,
                     date |-> today, body |-> req.form.body, img_url |-> req.form.img_url]
    IN  /\ new_post.id <= MaxPostId
        /\ posts' = posts \cup {new_post}
        /\ UNCHANGED <<users, comments, sess>>
        /\ Reply("createPost", s, "OK")

\* /edit-post/<post_id>: @login_required, @admin_only
edit_post(s, post_id, req) ==
  IF load_user_fails(s) THEN
    Deny("editPost", s, "NotFound")
  ELSE IF login_required(s) # "pass" THEN
    Deny("editPost", s, login_required(s))
  ELSE IF admin_only(s) # "pass" THEN
    Deny("editPost", s, admin_only(s))
  ELSE IF post_id \notin Ids(posts) THEN
    Deny("editPost", s, "NotFound")
  ELSE IF ~(is_submitted(req) /\ CreatePostForm_validate(req.form)) THEN
    Deny("editPost", s, "Rendered")
  ELSE IF \E p \in posts : p.id # post_id /\ p.title = req.form.title THEN
    \* unique constraint on blog_posts.title (IntegrityError at commit, not caught)
    Deny("editPost", s, "InternalError")
  ELSE
    LET post == CHOOSE p \in posts : p.id = post_id
        edited == [post EXCEPT !.author_id = current_user(s).id,
                               !.title = req.form.title,
                               !.subtitle = req.form.subtitle,
                               !.img_url = req.form.img_url,
                               !.body = req.form.body]
    IN  /\ posts' = (posts \ {post}) \cup {edited}
        /\ UNCHANGED <<users, comments, sess>>
        /\ Reply("editPost", s, "OK")

\* /delete-post/<post_id>: @admin_only alone
delete_post(s, post_id) ==
  IF load_user_fails(s) THEN
    Deny("deletePost", s, "NotFound")
  ELSE IF admin_only(s) # "pass" THEN
    Deny("deletePost", s, admin_only(s))
  ELSE IF post_id \notin Ids(posts) THEN
    Deny("deletePost", s, "NotFound")
  ELSE
    LET gone == {p \in posts : p.id = post_id}
    IN  /\ posts' = posts \ gone
        /\ comments' = DeletePosts(gone, comments)
        /\ UNCHANGED <<users, sess>>
        /\ Reply("deletePost", s, "OK")

\* /post/<post_id>: the page of a post; a valid POST appends a comment
show_post(s, post_id, req) ==
  IF post_id \notin Ids(posts) THEN
    Deny("addComment", s, "NotFound")
  ELSE IF load_user_fails(s) THEN
    Deny("addComment", s, "NotFound")
  ELSE IF ~(is_submitted(req) /\ CommentForm_validate(req.form)) THEN
    Deny("addComment", s, "Rendered")
  ELSE IF ~is_authenticated(s) THEN
    Deny("addComment", s, "NotAuthenticated")
  ELSE
    LET new_comment == [id |-> NextId(comments), text |-> escape(req.form.comment),
                        comment_author_id |-> current_user(s).id, post_id |-> post_id]
    IN  /\ new_comment.id <= MaxCommentId
        /\ comments' = comments \cup {new_comment}
        /\ UNCHANGED <<users, posts, sess>>
        /\ Reply("addComment", s, "OK")

\* /delete-comment/<comment_id>: no decorator, current_user is never read
delete_comment(s, comment_id) ==
  IF comment_id \notin Ids(comments) THEN
    Deny("deleteComment", s, "NotFound")
  ELSE
    /\ comments' = {c \in comments : c.id # comment_id}
    /\ UNCHANGED <<users, posts, sess>>
    /\ Reply("deleteComment", s, "OK")

\* /delete-user/<username>: no decorator
delete_user(s, username) ==
  LET found == {u \in users : u.username = username} IN
  IF load_user_fails(s) THEN
    \* logout_user() loads the current user first
    Deny("deleteUser", s, "NotFound")
  ELSE IF found = {} THEN
    \* db.session.delete(None) raises, after logout_user()
    /\ sess' = [sess EXCEPT ![s] = {}]
    /\ UNCHANGED <<users, posts, comments>>
    /\ Reply("deleteUser", s, "InternalError")
  ELSE
    LET gone == {p \in posts : p.author_id \in Ids(found)}
    IN  /\ sess' = [sess EXCEPT ![s] = {}]
        /\ users' = users \ found
        /\ posts' = posts \ gone
        /\ comments' = {c \in DeletePosts(gone, comments) : c.comment_author_id \notin Ids(found)}
        /\ Reply("deleteUser", s, "OK")

Next ==
  \/ \E s \in Sessions, req \in Requests(SignupData) : signup(s, req)
  \/ \E s \in Sessions, req \in Requests(SigninData) : signin(s, req)
  \/ \E s \in Sessions : signout(s)
  \/ \E s \in Sessions, req \in Requests(PostData), today \in Dates : add_new_post(s, req, today)
  \/ \E s \in Sessions, id \in 1..MaxPostId, req \in Requests(PostData) : edit_post(s, id, req)
  \/ \E s \in Sessions, id \in 1..MaxPostId : delete_post(s, id)
  \/ \E s \in Sessions, id \in 1..MaxPostId, req \in Requests(CommentData) : show_post(s, id, req)
  \/ \E s \in Sessions, id \in 1..MaxCommentId : delete_comment(s, id)
  \/ \E s \in Sessions, username \in Usernames : delete_user(s, username)

Spec == Init /\ [][Next]_vars

\* ------------------------------------------------------------------ claims
PostOps == {"createPost", "editPost", "deletePost"}

StoreUnchanged == users' = users /\ posts' = posts /\ comments' = comments

\* C1: a request on /new-post, /edit-post/{id} or /delete-post/{id} by a
\* signed-in user whose id is not 1 is answered Forbidden and changes no post
\* and no comment.
C1_NonAdminForbidden ==
  [][(/\ last'.op \in PostOps
      /\ last'.uid # {}
      /\ last'.uid \subseteq Ids(users)
      /\ last'.uid # {AdminId})
     => (/\ last'.outcome = "Forbidden"
         /\ posts' = posts
         /\ comments' = comments)]_vars

\* a signed-in non-admin has just been refused the deletion of a post, with a
\* post and a comment in the store
C1_Witness ==
  /\ last.op = "deletePost"
  /\ last.uid = {2}
  /\ last.outcome = "Forbidden"
  /\ posts # {}
  /\ comments # {}

\* C2: a request on /new-post, /edit-post/{id} or /delete-post/{id} by an
\* anonymous caller is answered NotAuthenticated, never with an unhandled
\* failure, and changes no post and no comment.
C2_AnonymousNotAuthenticated ==
  [][(last'.op \in PostOps /\ last'.uid = {})
     => (/\ last'.outcome = "NotAuthenticated"
         /\ posts' = posts
         /\ comments' = comments)]_vars

\* the caller of /delete-user/{username} is signed in as that very user
OwnAccount(s, username) ==
  \E u \in users : u.id \in sess[s] /\ u.username = username

\* C3: /delete-user/{username} removes a user only when username is the
\* caller's own; any other caller is answered Forbidden and no user, post or
\* comment is removed.
C3_DeleteUserSelfOnly ==
  [][last'.op = "deleteUser" =>
       \A s \in Sessions, u \in users :
         (delete_user(s, u.username) /\ ~OwnAccount(s, u.username))
         => (last'.outcome = "Forbidden" /\ StoreUnchanged)]_vars

\* C4: no orphaned row: every post's author is a user, every comment's author
\* is a user and every comment's post is a post, after any sequence of requests.
C4_NoOrphans ==
  /\ \A p \in posts : p.author_id \in Ids(users)
  /\ \A c \in comments :
       c.comment_author_id \in Ids(users) /\ c.post_id \in Ids(posts)

\* the administrator's account has just been deleted while another user
\* remains, and the deletion took a post and a comment with it
C4_Witness ==
  /\ last.op = "deleteUser"
  /\ last.outcome = "OK"
  /\ AdminId \notin Ids(users)
  /\ users # {}
  /\ last.removed[1] >= 1
  /\ last.removed[2] >= 1

\* the first user of the store
FirstUser == CHOOSE u \in Roster : u.id = AdminId

C6_SignUpSucceeds ==
  [][(last'.op = "signUp" /\ last'.uid = {}) =>
       \A s \in Sessions, d \in SignupData :
         (/\ sess[s] = {}
          /\ signup(s, POST(d))
          /\ SignupForm_validate(d)
          /\ ~\E u \in users : u.email = d.email \/ u.username = lower(d.username))
         => (/\ last'.outcome = "OK"
             /\ \E u \in users' \ users :
                  /\ users' = users \cup {u}
                  /\ u.email = d.email
                  /\ u.username = lower(d.username)
                  /\ sess'[s] = {u.id})]_vars

\* C8: createPost by the administrator with the title of an existing post is
\* answered DuplicateTitle and creates no post, and no two posts ever share a
\* title.
C8_DuplicateTitle ==
  [][/\ (last'.op = "createPost" /\ last'.uid = {AdminId} /\ AdminId \in Ids(users)) =>
          \A s \in Sessions, d \in PostData, today \in Dates :
            (/\ add_new_post(s, POST(d), today)
             /\ CreatePostForm_validate(d)
             /\ \E p \in posts : p.title = d.title)
            => (last'.outcome = "DuplicateTitle" /\ posts' = posts)
     /\ \A p, q \in posts' : p.title = q.title => p = q]_vars

\* the password d.password is the one user u signed up with
CorrectPassword(u, pw) == u.password = generate_password_hash(pw)

\* the sessions' bindings change only by a sign-in with the user's password,
\* by the signup that creates the user, or by a sign-out
BoundOnlyBySignInOrSignUp ==
  \A s \in Sessions :
    (sess'[s] # sess[s] /\ sess'[s] # {})
    => \/ /\ last'.op = "signIn"
          /\ \E d \in SigninData, u \in users :
               /\ signin(s, POST(d))
               /\ u.email = d.email /\ CorrectPassword(u, d.password)
               /\ sess'[s] = {u.id}
       \/ /\ last'.op = "signUp"
          /\ sess'[s] \subseteq Ids(users') \ Ids(users)

\* what the claim says of a sign-in with data d by the anonymous session s
SignInAsClaimed(s, d) ==
  LET known == {u \in users : u.email = d.email} IN
  IF known = {} THEN
    last'.outcome = "UnknownEmail" /\ sess' = sess /\ StoreUnchanged
  ELSE IF \E u \in known : CorrectPassword(u, d.password) THEN
    /\ last'.outcome = "OK"
    /\ \E u \in known : sess' = [sess EXCEPT ![s] = {u.id}]
    /\ StoreUnchanged
  ELSE
    last'.outcome = "InvalidPassword" /\ sess' = sess /\ StoreUnchanged

\* C9 as stated: a sign-in from the anonymous state succeeds with the correct
\* password of an existing email, is answered InvalidPassword with any other
\* password and UnknownEmail with an unregistered email, the failures leaving
\* the session anonymous and the store unchanged; a session is bound only by
\* signUp or by a signIn with the user's password.
C9_SignInAsStated ==
  [][/\ (last'.op = "signIn" /\ last'.uid = {}) =>
          \A s \in Sessions, d \in SigninData :
            (sess[s] = {} /\ signin(s, POST(d))) => SignInAsClaimed(s, d)
     /\ BoundOnlyBySignInOrSignUp]_vars

\* C9 amended: the same for the submissions that pass the form's validators (a
\* well-formed email and a password of 8 characters or more); any other
\* submission is answered with the form again, the session still anonymous
\* and the store unchanged.
C9_SignIn ==
  [][/\ (last'.op = "signIn" /\ last'.uid = {}) =>
          \A s \in Sessions, d \in SigninData :
            (sess[s] = {} /\ signin(s, POST(d)))
            => IF SigninForm_validate(d) THEN SignInAsClaimed(s, d)
               ELSE last'.outcome = "Rendered" /\ sess' = sess /\ StoreUnchanged
     /\ BoundOnlyBySignInOrSignUp]_vars

\* a sign-in has just failed on a wrong password, the caller still anonymous,
\* while another client is signed in
C9_Witness ==
  /\ last.op = "signIn"
  /\ last.outcome = "InvalidPassword"
  /\ last.uid = {}
  /\ \E s \in Sessions : sess[s] = {}
  /\ \E s \in Sessions : sess[s] # {} /\ sess[s] \subseteq Ids(users)

\* C10: no session holds the id of a user that is no longer in the store.
C10_NoStaleSession ==
  \A s \in Sessions : sess[s] \subseteq Ids(users)
====
